---- MODULE Spec2Model ----
(***************************************************************************)
(* Model of src/app.py: the /ans/handshake gateway (unified_handshake),    *)
(* the rotating token and the enclave purge (SentinelSecurity) and the     *)
(* intent classifier (KrishnaInference).                                   *)
(*                                                                         *)
(* Python strings are sequences of one-character strings, so that upper(), *)
(* slicing and the substring test are computed, not assumed.  A JSON value *)
(* read with data.get(...) is a record [type, val]; an absent key and a    *)
(* JSON null both read as None.                                            *)
(* Werkzeug runs one handler per request on its own thread; the handlers   *)
(* share the enclave directory and the wall clock.  An exception that      *)
(* leaves unified_handshake is recorded as the framework's 500 reply.      *)
(***************************************************************************)
EXTENDS Integers, Sequences, FiniteSets, TLC

\* ------------------------------------------------------------------ bounds
\* handler threads that may be in flight together
NumThreads == 2
\* last second of the wall clock that is explored
MaxTime == 58
\* most entries the environment stores in the enclave
MaxEntries == 1

\* --------------------------------------------------------- program constants
\* the 30-second quantum of get_rotating_token
WINDOW_SECONDS == 30
\* hexdigest()[:24]
SIGNATURE_LEN == 24

\* --------------------------------------------------------- strings and JSON
LowerCase ==
    <<"a","b","c","d","e","f","g","h","i","j","k","l","m",
      "n","o","p","q","r","s","t","u","v","w","x","y","z">>

UpperCase ==
    <<"A","B","C","D","E","F","G","H","I","J","K","L","M",
      "N","O","P","Q","R","S","T","U","V","W","X","Y","Z">>

Digits == <<"0","1","2","3","4","5","6","7","8","9">>

Range(s) == {s[i] : i \in DOMAIN s}

\* the ASCII characters that occur in the model's texts
AsciiChars == Range(LowerCase) \cup Range(UpperCase) \cup Range(Digits) \cup {"_", " ", "-"}

\* stands for one code point above 127 (U+00E9)
NON_ASCII_CHAR == "U+00E9"

\* str.upper(), one character
UpperChar(c) ==
    IF \E i \in DOMAIN LowerCase : LowerCase[i] = c
    THEN UpperCase[CHOOSE i \in DOMAIN LowerCase : LowerCase[i] = c]
    ELSE c

\* str.upper()
Upper(s) == [i \in DOMAIN s |-> UpperChar(s[i])]

\* the Python test  `needle in hay`  on strings
Contains(hay, needle) ==
    \E k \in 0..(Len(hay) - Len(needle)) :
        \A j \in 1..Len(needle) : hay[k + j] = needle[j]

\* s[:n]
Prefix(s, n) == SubSeq(s, 1, IF Len(s) < n THEN Len(s) ELSE n)

\* str(n) for a natural number
RECURSIVE Str(_)
Str(n) == IF n < 10 THEN <<Digits[n + 1]>> ELSE Str(n \div 10) \o <<Digits[(n % 10) + 1]>>

None == [type |-> "null", val |-> <<>>]
JStr(s) == [type |-> "str", val |-> s]

IsStr(v) == v.type = "str"

\* Python truthiness of None and of a string, as used by  `client_token or ""`
Truthy(v) == IsStr(v) /\ v.val # <<>>

\* ---------------------------------------------------------------- constants
NODE_ID ==
    <<"A","N","S","-","O","M","E","G","A","-","C","O","R","E","-","0","1">>

HSM_MANTRA ==
    <<"Y","A","T","O","_","D","H","A","R","M","A","_","T","A","T","O","_","J","A","Y","A","_","2","0","2","6">>

STRESS_CRITICAL ==
    <<"S","T","R","E","S","S","_","C","R","I","T","I","C","A","L">>

ADHARMA == <<"A","D","H","A","R","M","A">>

DHARMIC_CLEARANCE ==
    <<"D","H","A","R","M","I","C","_","C","L","E","A","R","A","N","C","E">>

DHARMIC_CLEARANCE_LOCAL_VERIFIED ==
    DHARMIC_CLEARANCE \o <<"_","L","O","C","A","L","_","V","E","R","I","F","I","E","D">>

ASTRA_PREFIX == <<"A","S","T","R","A","-">>

\* ------------------------------------------------------------------ hashes
\* A cryptographic hash cannot be evaluated here: each digest is modelled as
\* an ideal one, a collision-free lowercase-hex rendering of its input.
HexDigits == <<"0","1","2","3","4","5","6","7","8","9","a","b","c","d","e","f">>

CharTable == LowerCase \o UpperCase \o Digits \o <<"_", " ", "-">>

\* two hex digits per ASCII character, the UTF-8 bytes c3 a9 for U+00E9
HexOfChar(c) ==
    IF c = NON_ASCII_CHAR
    THEN <<"c","3","a","9">>
    ELSE LET i == CHOOSE k \in DOMAIN CharTable : CharTable[k] = c
         IN  <<HexDigits[(i \div 16) + 1], HexDigits[(i % 16) + 1]>>

RECURSIVE HexEncode(_)
HexEncode(s) == IF s = <<>> THEN <<>> ELSE HexOfChar(Head(s)) \o HexEncode(Tail(s))

\* hmac.new(key, msg, hashlib.sha3_512).hexdigest(): the process holds one key,
\* so the ideal digest is rendered from the key's first byte and the message
hmac_sha3_512_hexdigest(key, msg) == HexEncode(<<key[1]>> \o msg)

\* hashlib.sha3_256(text.encode()).hexdigest(): 64 hex characters
sha3_256_hexdigest(text) ==
    LET h == HexEncode(text)
    IN  Prefix(h \o [i \in 1..64 |-> "0"], 64)

\* ------------------------------------------------------------------- state
Threads == 1..NumThreads

VARIABLES
    pc,             \* where each handler thread stands in unified_handshake
    data,           \* request.json of the request the thread serves
    expected,       \* the value get_rotating_token() returned to the thread
    classifier,     \* what the inference service did when the thread called it
    ethics_report,  \* the thread's local ethics_report
    events,         \* the calls the thread has made while serving its request
    resp,           \* the response the thread has returned
    now,            \* time.time(), in whole seconds
    vault,          \* the directory VAULT_PATH
    fs_faulted,     \* history: the file system has failed a call on its own
    issued          \* history: intent, signature and window of every 200 response

vars ==
    <<pc, data, expected, classifier, ethics_report, events, resp, now, vault,
      fs_faulted, issued>>

\* ------------------------------------------------------------------ inputs
\* the seconds at which the clock is sampled: the first and the last second
\* of every 30-second window up to MaxTime
Times == {t \in 0..MaxTime : t % WINDOW_SECONDS \in {0, WINDOW_SECONDS - 1}}

\* a time slot that is rounded to the nearest window instead of truncated
get_rotating_token_rounded(t) ==
    hmac_sha3_512_hexdigest(HSM_MANTRA, Str((2 * t + WINDOW_SECONDS) \div (2 * WINDOW_SECONDS)))

\* SentinelSecurity.get_rotating_token at wall-clock time t
get_rotating_token(t) ==
    hmac_sha3_512_hexdigest(HSM_MANTRA, Str(t \div WINDOW_SECONDS))

LOWER_STRESS ==
    <<"s","t","r","e","s","s","_","c","r","i","t","i","c","a","l">>

\* auth_token: absent or null, a non-ASCII string, the code of each window
Tokens ==
    {None, JStr(<<NON_ASCII_CHAR>>)}
        \cup {JStr(get_rotating_token(w * WINDOW_SECONDS)) : w \in 0..(MaxTime \div WINDOW_SECONDS)}

EegStates == {None, JStr(<<>>), JStr(LOWER_STRESS), JStr(STRESS_CRITICAL)}

Intents == {None, JStr(<<>>), JStr(<<"g","o">>)}

Requests == [auth_token : Tokens, eeg_state : EegStates, mental_intent : Intents]

NoRequest == [auth_token |-> None, eeg_state |-> None, mental_intent |-> None]

ADHARMA_REJECT == ADHARMA \o <<"_","R","E","J","E","C","T">>

\* the 'response' field of the service's JSON object
ReplyValues ==
    { None,
      JStr(DHARMIC_CLEARANCE),
      JStr(ADHARMA_REJECT),
      JStr(<<"n","o"," ","a","d","h","a","r","m","A","_","r","e","j","e","c","t"," ">>) }

\* what requests.post(...) and res.json() can do
ClassifierOutcomes ==
    [kind : {"connection_error", "timeout", "not_json", "not_object", "no_response_key"},
     val : {None}]
        \cup [kind : {"response"}, val : ReplyValues]

NoCall == [kind |-> "none", val |-> None]

NoResponse == [code |-> 0, status |-> "", log |-> None, astra_signature |-> <<>>]

Absent == [exists |-> FALSE, entries |-> 0]
Dir(n) == [exists |-> TRUE, entries |-> n]

\* ---------------------------------------------------------------- helpers
\* hmac.compare_digest(a, b) raises TypeError unless both are ASCII strings
compare_digest_raises(a, b) ==
    \/ ~IsStr(a)
    \/ ~IsStr(b)
    \/ \E i \in DOMAIN a.val : a.val[i] \notin AsciiChars
    \/ \E i \in DOMAIN b.val : b.val[i] \notin AsciiChars

\* a comparison that stops at the end of the presented value
compare_digest_prefix(a, b) == a.val = Prefix(b.val, Len(a.val))

compare_digest(a, b) == a.val = b.val

\* a comparison of the signal that ignores letter case
is_stress_critical_anycase(eeg_state) ==
    IsStr(eeg_state) /\ Upper(eeg_state.val) = STRESS_CRITICAL

\* eeg_state == "STRESS_CRITICAL"
is_stress_critical(eeg_state) == eeg_state = JStr(STRESS_CRITICAL)

\* KrishnaInference.analyze_intent: the value it returns for an outcome
analyze_intent(o) ==
    CASE o.kind = "response"        -> o.val
      [] o.kind = "no_response_key" -> JStr(DHARMIC_CLEARANCE)
      [] OTHER                      -> JStr(DHARMIC_CLEARANCE_LOCAL_VERIFIED)

\* the marker test without .upper()
IsRejectedCaseSensitive(report) == Contains(report, ADHARMA)

\* "ADHARMA" in ethics_report.upper()
IsRejected(report) == Contains(Upper(report), ADHARMA)

\* a signature salted with the current time slot
astra_id_salted(intent) ==
    Upper(Prefix(sha3_256_hexdigest(intent \o Str(now \div WINDOW_SECONDS)), SIGNATURE_LEN))

\* hashlib.sha3_256(mission_intent.encode()).hexdigest()[:24].upper()
astra_id(intent) == Upper(Prefix(sha3_256_hexdigest(intent), SIGNATURE_LEN))

Response(code, status) ==
    [code |-> code, status |-> status, log |-> None, astra_signature |-> <<>>]

\* thread r returns response v
Return(r, v) ==
    /\ resp' = [resp EXCEPT ![r] = v]
    /\ pc' = [pc EXCEPT ![r] = "done"]

\* an exception leaves unified_handshake on thread r
Raise(r) == Return(r, Response(500, "INTERNAL_SERVER_ERROR"))

Goto(r, label) ==
    /\ pc' = [pc EXCEPT ![r] = label]
    /\ UNCHANGED resp

Event(r, e) == events' = [events EXCEPT ![r] = @ \cup {e}]

\* ----------------------------------------------------------------- actions
Init ==
    /\ pc = [r \in Threads |-> "idle"]
    /\ data = [r \in Threads |-> NoRequest]
    /\ expected = [r \in Threads |-> <<>>]
    /\ classifier = [r \in Threads |-> NoCall]
    /\ ethics_report = [r \in Threads |-> None]
    /\ events = [r \in Threads |-> {}]
    /\ resp = [r \in Threads |-> NoResponse]
    /\ now = 0
    /\ vault \in {Dir(n) : n \in 0..MaxEntries}
    /\ fs_faulted = FALSE
    /\ issued = {}

\* a request arrives and a free thread takes it: data = request.json
Receive(r, requests) ==
    /\ pc[r] \in {"idle", "done"}
    /\ \E d \in requests : data' = [data EXCEPT ![r] = d]
    /\ pc' = [pc EXCEPT ![r] = "auth"]
    /\ expected' = [expected EXCEPT ![r] = <<>>]
    /\ classifier' = [classifier EXCEPT ![r] = NoCall]
    /\ ethics_report' = [ethics_report EXCEPT ![r] = None]
    /\ events' = [events EXCEPT ![r] = {}]
    /\ resp' = [resp EXCEPT ![r] = NoResponse]
    /\ UNCHANGED <<now, vault, fs_faulted, issued>>

\* 1. Zero-Trust Hardware Handshake
AuthCheck(r) ==
    /\ pc[r] = "auth"
    /\ LET client_token == data[r].auth_token
           presented == IF Truthy(client_token) THEN client_token ELSE JStr(<<>>)
           token == JStr(get_rotating_token(now))
       IN  /\ expected' = [expected EXCEPT ![r] = token.val]
           /\ IF compare_digest_raises(presented, token)
              THEN Raise(r)
              ELSE IF ~compare_digest(presented, token)
                   THEN Return(r, Response(403, "INTERCEPTED"))
                   ELSE Goto(r, "distress")
    /\ UNCHANGED <<data, classifier, ethics_report, events, now, vault, fs_faulted, issued>>

\* 2. Biological Integrity Check
DistressCheck(r) ==
    /\ pc[r] = "distress"
    /\ IF is_stress_critical(data[r].eeg_state)
       THEN Goto(r, "purge") /\ Event(r, "initiate_self_purge")
       ELSE Goto(r, "ethics") /\ UNCHANGED events
    /\ UNCHANGED <<data, expected, classifier, ethics_report, now, vault, fs_faulted, issued>>

\* initiate_self_purge: if os.path.exists(VAULT_PATH)
PurgeExists(r) ==
    /\ pc[r] = "purge"
    /\ IF vault.exists THEN Goto(r, "rmtree") ELSE Goto(r, "purged")
    /\ UNCHANGED <<data, expected, classifier, ethics_report, events, now, vault, fs_faulted, issued>>

\* initiate_self_purge: shutil.rmtree(VAULT_PATH)
PurgeRmtree(r) ==
    /\ pc[r] = "rmtree"
    /\ IF ~vault.exists
       THEN \* FileNotFoundError
            /\ Raise(r)
            /\ Event(r, "FileNotFoundError")
            /\ UNCHANGED <<vault, fs_faulted>>
       ELSE \/ /\ vault' = Absent
               /\ Goto(r, "makedirs")
               /\ Event(r, "rmtree")
               /\ UNCHANGED fs_faulted
            \/ \* OSError part of the way: some entries may be left
               /\ \E n \in 0..vault.entries : vault' = Dir(n)
               /\ Raise(r)
               /\ Event(r, "OSError")
               /\ fs_faulted' = TRUE
    /\ UNCHANGED <<data, expected, classifier, ethics_report, now, issued>>

\* a makedirs whose OSError is swallowed
PurgeMakedirsSwallows(r) ==
    /\ pc[r] = "makedirs"
    /\ IF vault.exists
       THEN /\ Raise(r)
            /\ Event(r, "FileExistsError")
            /\ UNCHANGED <<vault, fs_faulted>>
       ELSE \/ /\ vault' = Dir(0)
               /\ Goto(r, "purged")
               /\ Event(r, "makedirs")
               /\ UNCHANGED fs_faulted
            \/ /\ Goto(r, "purged")
               /\ Event(r, "OSError")
               /\ fs_faulted' = TRUE
               /\ UNCHANGED vault
    /\ UNCHANGED <<data, expected, classifier, ethics_report, now, issued>>

\* initiate_self_purge: os.makedirs(VAULT_PATH)
PurgeMakedirs(r) ==
    /\ pc[r] = "makedirs"
    /\ IF vault.exists
       THEN \* FileExistsError
            /\ Raise(r)
            /\ Event(r, "FileExistsError")
            /\ UNCHANGED <<vault, fs_faulted>>
       ELSE \/ /\ vault' = Dir(0)
               /\ Goto(r, "purged")
               /\ Event(r, "makedirs")
               /\ UNCHANGED fs_faulted
            \/ \* OSError
               /\ Raise(r)
               /\ Event(r, "OSError")
               /\ fs_faulted' = TRUE
               /\ UNCHANGED vault
    /\ UNCHANGED <<data, expected, classifier, ethics_report, now, issued>>

\* a handler that does not return after the purge
PurgeReturnFallsThrough(r) ==
    /\ pc[r] = "purged"
    /\ Goto(r, "ethics")
    /\ Event(r, "HARDWARE_SANITIZED")
    /\ UNCHANGED <<data, expected, classifier, ethics_report, now, vault, fs_faulted, issued>>

\* initiate_self_purge returns "HARDWARE_SANITIZED"; the handler returns 410
PurgeReturn(r) ==
    /\ pc[r] = "purged"
    /\ Return(r, Response(410, "TERMINATED"))
    /\ Event(r, "HARDWARE_SANITIZED")
    /\ UNCHANGED <<data, expected, classifier, ethics_report, now, vault, fs_faulted, issued>>

\* 3. Ethical Intent Scan: KrishnaInference.analyze_intent(mission_intent)
EthicsCall(r, outcomes) ==
    /\ pc[r] = "ethics"
    /\ \E o \in outcomes :
          /\ classifier' = [classifier EXCEPT ![r] = o]
          /\ ethics_report' = [ethics_report EXCEPT ![r] = analyze_intent(o)]
    /\ Event(r, "analyze_intent")
    /\ Goto(r, "verdict")
    /\ UNCHANGED <<data, expected, now, vault, fs_faulted, issued>>

\* if "ADHARMA" in ethics_report.upper()
EthicsVerdict(r) ==
    /\ pc[r] = "verdict"
    /\ IF ~IsStr(ethics_report[r])
       THEN \* AttributeError: no .upper()
            Raise(r)
       ELSE IF IsRejected(ethics_report[r].val)
            THEN Return(r, [Response(401, "FORBIDDEN") EXCEPT !.log = ethics_report[r]])
            ELSE Goto(r, "signature")
    /\ UNCHANGED <<data, expected, classifier, ethics_report, events, now, vault, fs_faulted, issued>>

\* 4. and 5. telemetry, Astra Vector Synthesis and the success response
Signature(r) ==
    /\ pc[r] = "signature"
    /\ Event(r, "signature")
    /\ LET mission_intent == data[r].mental_intent
           astra_signature == ASTRA_PREFIX \o astra_id(mission_intent.val)
       IN  IF ~IsStr(mission_intent)
           THEN \* AttributeError: no .encode()
                /\ Raise(r)
                /\ UNCHANGED issued
           ELSE /\ Return(r, [Response(200, "DHARMA_SYNCHRONIZED") EXCEPT
                                !.astra_signature = astra_signature])
                /\ issued' = issued \cup
                      {[intent |-> mission_intent.val, signature |-> astra_signature,
                        window |-> now \div WINDOW_SECONDS]}
    /\ UNCHANGED <<data, expected, classifier, ethics_report, now, vault, fs_faulted>>

\* the wall clock advances to a later sampled second
Tick ==
    /\ \E t \in Times : t > now /\ now' = t
    /\ UNCHANGED <<pc, data, expected, classifier, ethics_report, events, resp, vault,
                   fs_faulted, issued>>

\* classified data is stored in the enclave
VaultStore ==
    /\ vault.exists
    /\ vault.entries < MaxEntries
    /\ vault' = Dir(vault.entries + 1)
    /\ UNCHANGED <<pc, data, expected, classifier, ethics_report, events, resp, now,
                   fs_faulted, issued>>

\* one step of thread r, its request and the service's behaviour drawn from
\* the given sets
Step(r, requests, outcomes) ==
    \/ Receive(r, requests)
    \/ AuthCheck(r)
    \/ DistressCheck(r)
    \/ PurgeExists(r)
    \/ PurgeRmtree(r)
    \/ PurgeMakedirs(r)
    \/ PurgeReturn(r)
    \/ EthicsCall(r, outcomes)
    \/ EthicsVerdict(r)
    \/ Signature(r)

\* Requests served one at a time, over every request and every behaviour of
\* the inference service, the clock and the file system.
Next ==
    \/ Step(1, Requests, ClassifierOutcomes)
    \/ Tick
    \/ VaultStore

Spec == Init /\ [][Next]_vars

\* Requests served by NumThreads threads at once.  The requests are those
\* that differ in how they touch the enclave; the clock stands still.
ConcurrentRequests ==
    [auth_token : {None, JStr(get_rotating_token(0))},
     eeg_state : {None, JStr(STRESS_CRITICAL)},
     mental_intent : {JStr(<<"g","o">>)}]

ConcurrentOutcomes ==
    { [kind |-> "timeout", val |-> None],
      [kind |-> "response", val |-> JStr(ADHARMA_REJECT)] }

NextConcurrent ==
    \/ \E r \in Threads : Step(r, ConcurrentRequests, ConcurrentOutcomes)
    \/ VaultStore

SpecConcurrent == Init /\ [][NextConcurrent]_vars

\* ================================================================== claims
Done(r) == pc[r] = "done"

\* the presented token equalled the code get_rotating_token() returned
TokenMatched(r) == data[r].auth_token = JStr(expected[r])

\* the same, for a thread that may still stand before the auth check
TokenValid(r) ==
    IF pc[r] = "auth"
    THEN data[r].auth_token = JStr(get_rotating_token(now))
    ELSE TokenMatched(r)

Sentinel(r) == data[r].eeg_state = JStr(STRESS_CRITICAL)

NormalCodes == {403, 410, 401, 200}

\* text mentions the rejection marker in any letter case
MentionsMarker(text) ==
    \E k \in 0..(Len(text) - Len(ADHARMA)) :
        \A j \in 1..Len(ADHARMA) : UpperChar(text[k + j]) = ADHARMA[j]

\* the classifier call of thread r failed by an exception or a timeout
ClassifierThrew(r) == classifier[r].kind \in {"connection_error", "timeout"}

PurgeLabels == {"purge", "rmtree", "makedirs", "purged"}

\* C1: every request ends in exactly one of 403, 410, 401, 200, decided in the
\* order auth, distress, ethics: a token mismatch gives 403 whatever the other
\* fields, and a valid token with the sentinel eeg_state gives 410.
C1_OrderedOutcomes ==
    \A r \in Threads :
        Done(r) =>
            /\ resp[r].code \in NormalCodes
            /\ (~TokenMatched(r) => resp[r].code = 403)
            /\ (TokenMatched(r) /\ Sentinel(r) => resp[r].code = 410)

\* C2: the signature stage and the 200 response are reached only when, in the
\* same request, the token equalled the expected code, eeg_state was not the
\* sentinel and the classifier text did not mention the marker.
C2_SuccessOnlyAfterAllChecks ==
    \A r \in Threads :
        /\ (resp[r].code = 200 \/ pc[r] = "signature" \/ "signature" \in events[r]) =>
              /\ TokenMatched(r)
              /\ ~Sentinel(r)
              /\ IsStr(ethics_report[r])
              /\ ~MentionsMarker(ethics_report[r].val)
        /\ resp[r].code = 200 =>
              /\ resp[r].status = "DHARMA_SYNCHRONIZED"
              /\ Len(resp[r].astra_signature) = Len(ASTRA_PREFIX) + SIGNATURE_LEN

C2_Witness ==
    \E r \in Threads : resp[r].code = 200 /\ Done(r)

\* C3: a request whose token does not match the current code ends in 403
\* without a purge and without a classifier call.
C3_MismatchIs403 ==
    \A r \in Threads :
        (Done(r) /\ ~TokenMatched(r)) =>
            /\ resp[r].code = 403
            /\ events[r] = {}

\* C4 as claimed: a valid token with the sentinel eeg_state always ends in 410
\* after the purge, the classifier never called.
C4_SentinelIs410 ==
    \A r \in Threads :
        (Done(r) /\ TokenMatched(r) /\ Sentinel(r)) =>
            /\ resp[r].code = 410
            /\ "HARDWARE_SANITIZED" \in events[r]
            /\ "analyze_intent" \notin events[r]

\* C4 as amended: a valid token with the sentinel eeg_state calls
\* initiate_self_purge before any response and never calls the classifier; the
\* response is 410 TERMINATED exactly when initiate_self_purge returned, and
\* otherwise its exception left the handler.
C4_SentinelPurgesThenTerminates ==
    \A r \in Threads :
        (pc[r] \notin {"idle", "auth", "distress"} /\ TokenMatched(r) /\ Sentinel(r)) =>
            /\ "initiate_self_purge" \in events[r]
            /\ "analyze_intent" \notin events[r]
            /\ classifier[r] = NoCall
            /\ pc[r] \in PurgeLabels \cup {"done"}
            /\ Done(r) =>
                  /\ resp[r].code \in {410, 500}
                  /\ resp[r].code = 410 <=> "HARDWARE_SANITIZED" \in events[r]
                  /\ resp[r].code = 410 => resp[r].status = "TERMINATED"

C4_Witness ==
    \E r \in Threads :
        /\ Done(r) /\ TokenMatched(r) /\ Sentinel(r)
        /\ resp[r].code = 410
        /\ {"rmtree", "makedirs"} \subseteq events[r]

\* C5: a step of a request with a valid token and an eeg_state other than the
\* exact sentinel leaves the vault unchanged and never enters the purge; from
\* the distress check it goes to the ethics check, where the classifier is
\* called.
C5_NonSentinelProceeds ==
    [][\A r \in Threads :
          ( /\ pc[r] \notin {"idle", "done"}
            /\ pc'[r] # pc[r]
            /\ TokenValid(r)
            /\ ~Sentinel(r) ) =>
              /\ vault' = vault
              /\ pc'[r] \notin PurgeLabels
              /\ "initiate_self_purge" \notin events'[r]
              /\ pc[r] = "auth" => pc'[r] = "distress"
              /\ pc[r] = "distress" => pc'[r] = "ethics"
              /\ pc[r] = "ethics" =>
                    /\ "analyze_intent" \in events'[r]
                    /\ classifier'[r] # NoCall]_vars

C5_Witness ==
    \E r \in Threads :
        /\ Done(r) /\ TokenMatched(r)
        /\ data[r].eeg_state = JStr(LOWER_STRESS)
        /\ "analyze_intent" \in events[r]
        /\ vault.entries > 0

\* C6: with the auth and distress checks passed, a classifier call that throws
\* or times out still ends in the 200 success response.
C6_FailOpenIs200 ==
    \A r \in Threads :
        (Done(r) /\ TokenMatched(r) /\ ~Sentinel(r) /\ ClassifierThrew(r)) =>
            resp[r].code = 200

\* C7: with the auth and distress checks passed, a classifier reply that
\* mentions the marker anywhere, in any letter case, ends in 401 FORBIDDEN
\* whose log is the raw reply, and the signature stage is never reached.
C7_MarkerIs401 ==
    \A r \in Threads :
        ( /\ classifier[r].kind = "response"
          /\ IsStr(classifier[r].val)
          /\ MentionsMarker(classifier[r].val.val) ) =>
            /\ pc[r] \in {"verdict", "done"}
            /\ "signature" \notin events[r]
            /\ Done(r) =>
                  /\ resp[r].code = 401
                  /\ resp[r].status = "FORBIDDEN"
                  /\ resp[r].log = classifier[r].val

C7_Witness ==
    \E r \in Threads :
        /\ Done(r)
        /\ resp[r].code = 401
        /\ classifier[r].val # JStr(ADHARMA_REJECT)
        /\ resp[r].log = classifier[r].val

\* C8: whatever the classifier does, a finished request carries one of the
\* status codes 403, 410, 401, 200.
C8_AlwaysNormalResponse ==
    \A r \in Threads :
        pc[r] = "done" => resp[r].code \in NormalCodes

\* C9: a request with an absent field ends in a normal response: an absent
\* auth_token gives 403, an absent eeg_state lets the pipeline go on, and an
\* absent mental_intent with the other checks passed gives a normal response.
C9_AbsentFieldsHandled ==
    \A r \in Threads :
        /\ (Done(r) /\ data[r].auth_token = None) => resp[r].code = 403
        /\ (pc[r] \notin {"idle", "auth", "distress"} /\ TokenMatched(r)
                /\ data[r].eeg_state = None) => pc[r] \notin PurgeLabels
        /\ ( /\ Done(r) /\ TokenMatched(r) /\ ~Sentinel(r)
             /\ data[r].mental_intent = None
             /\ IsStr(ethics_report[r]) ) => resp[r].code \in NormalCodes

\* C10: when initiate_self_purge returns, the vault exists and is empty,
\* whatever it was before.
C10_PurgeLeavesEmptyVault ==
    [][\A r \in Threads :
          (pc[r] \in {"purge", "makedirs"} /\ pc'[r] = "purged") => vault' = Dir(0)]_vars

\* every thread has returned
AllReturned == \A r \in Threads : pc[r] \in {"idle", "done"}

\* C11: while the file system itself never fails, requests that trigger the
\* purge concurrently are safe: no purge raises, each such request returns
\* 410, and once all have returned the vault exists.
C11_ConcurrentPurgesSafe ==
    ~fs_faulted =>
        /\ \A r \in Threads :
              /\ events[r] \cap {"FileNotFoundError", "FileExistsError"} = {}
              /\ (Done(r) /\ TokenMatched(r) /\ Sentinel(r)) => resp[r].code = 410
        /\ AllReturned => vault.exists

\* the purge of thread r raised a filesystem error
PurgeRaised(r) ==
    events[r] \cap {"OSError", "FileNotFoundError", "FileExistsError"} # {}

\* C12: a purge that fails with a filesystem error ends the request with the
\* propagated exception: never the 410 confirmation, and neither the
\* classifier nor the signature stage runs.
C12_FailedPurgePropagates ==
    \A r \in Threads :
        PurgeRaised(r) =>
            /\ Done(r)
            /\ resp[r].code = 500
            /\ resp[r].status # "TERMINATED"
            /\ "HARDWARE_SANITIZED" \notin events[r]
            /\ "analyze_intent" \notin events[r]
            /\ "signature" \notin events[r]
            /\ classifier[r] = NoCall

C12_Witness ==
    \E r \in Threads :
        /\ "OSError" \in events[r]
        /\ "rmtree" \in events[r]
        /\ Done(r)
        /\ ~vault.exists

\* the service answered, but not with a JSON object holding a text
Malformed(o) ==
    \/ o.kind \in {"not_json", "not_object", "no_response_key"}
    \/ o.kind = "response" /\ ~IsStr(o.val)

\* C13: with the auth and distress checks passed and a string mental_intent, a
\* malformed classifier reply is treated as a cleared verdict: the request
\* ends in 200.
C13_MalformedReplyIs200 ==
    \A r \in Threads :
        ( /\ Done(r) /\ TokenMatched(r) /\ ~Sentinel(r)
          /\ IsStr(data[r].mental_intent)
          /\ Malformed(classifier[r]) ) => resp[r].code = 200

\* floor(t / 30)
WindowOf(t) == t \div WINDOW_SECONDS

\* the code of window w, from the secret and w alone
WindowCode(w) == hmac_sha3_512_hexdigest(HSM_MANTRA, Str(w))

\* C14: every validation computes the code of the window floor(now/30) afresh:
\* the token of window w passes the auth check at every time of window w and
\* is rejected with 403 at every time of another window.
C14_TokenValidWithinItsWindow ==
    [][\A r \in Threads :
          (pc[r] = "auth" /\ pc'[r] # "auth") =>
              /\ expected'[r] = WindowCode(WindowOf(now))
              /\ \A w \in 0..WindowOf(MaxTime) :
                    data[r].auth_token = JStr(WindowCode(w)) =>
                        IF w = WindowOf(now)
                        THEN pc'[r] = "distress"
                        ELSE pc'[r] = "done" /\ resp'[r].code = 403]_vars

C14_Witness ==
    \E r \in Threads :
        /\ Done(r)
        /\ resp[r].code = 403
        /\ data[r].auth_token = JStr(WindowCode(0))
        /\ expected[r] = WindowCode(1)
        /\ \E e \in issued : e.window = 0

\* C15: any two success responses for the same mental_intent carry the same
\* astra_signature, whenever and however they were served.
C15_SignatureFunctionOfIntent ==
    /\ \A e1, e2 \in issued : e1.intent = e2.intent => e1.signature = e2.signature
    /\ \A r \in Threads :
          resp[r].code = 200 =>
              \E e \in issued :
                  /\ e.intent = data[r].mental_intent.val
                  /\ e.signature = resp[r].astra_signature

C15_Witness ==
    \E e1, e2 \in issued :
        /\ e1.intent = e2.intent
        /\ e1.window # e2.window
        /\ e1.signature = e2.signature

\* the status code that the request's own token validity, eeg_state and
\* classifier reply call for
OwnOutcome(r) ==
    IF ~TokenMatched(r) THEN 403
    ELSE IF Sentinel(r) THEN 410
    ELSE IF IsStr(classifier[r].val) /\ MentionsMarker(classifier[r].val.val) THEN 401
    ELSE 200

\* C16: while the file system itself never fails, the status code a request
\* gets is the one its own token validity, eeg_state and classifier reply call
\* for, under every interleaving with the other requests.
C16_StatusDependsOnOwnRequest ==
    ~fs_faulted =>
        \A r \in Threads : Done(r) => resp[r].code = OwnOutcome(r)

====
